---- MODULE Spec2Model ----
(***************************************************************************)
(* Model of etl/load/merge_by_source.py: the command-line merge of a       *)
(* per-source CSV into the unified master CSV (read, classify, dedupe,     *)
(* sort by pubDate, union of field names, write).                          *)
(*                                                                         *)
(* A CSV file is modelled by what csv.DictReader / csv.DictWriter see of   *)
(* it: whether it exists, its header line (a sequence of field names) and  *)
(* its data lines (each a sequence of cells aligned with the header).      *)
(* Input files are rectangular (every line has one cell per header field)  *)
(* and their header names are distinct.  A Python dict (one row in         *)
(* memory) is a record [keys, val]: the keys in insertion order and the    *)
(* mapping itself.                                                         *)
(***************************************************************************)
EXTENDS Integers, Sequences, FiniteSets, TLC

(* ------------------------------ bounds --------------------------------- *)

\* most data lines in a CSV file handed to the program
MaxRows == 2

\* most invocations of main in one behaviour
MaxRuns == 2

(* --------------------------- text and values --------------------------- *)

\* Python's None; no cell of a CSV file holds this text
None == "<None>"

\* the field name that is "id" behind a byte-order mark (U+FEFF)
BOM_ID == "\\ufeffid"

\* bool(v) of a value that is None or a str
Truthy(v) == v # None /\ v # ""

Range(s) == {s[i] : i \in 1..Len(s)}

\* the characters of every pubDate text the model uses
Chars ==
  ("" :> <<>>)
  @@ ("not-a-date" :> <<"n","o","t","-","a","-","d","a","t","e">>)
  @@ ("2024-01-05" :> <<"2","0","2","4","-","0","1","-","0","5">>)
  @@ ("2024-1-5" :> <<"2","0","2","4","-","1","-","5">>)
  @@ ("1969-12-31T00:00:00+00:00" :>
        <<"1","9","6","9","-","1","2","-","3","1","T",
          "0","0",":","0","0",":","0","0","+","0","0",":","0","0">>)

(* ------------------------------ dates ---------------------------------- *)

Digits == {"0","1","2","3","4","5","6","7","8","9"}

DigitVal(c) ==
  CASE c = "0" -> 0 [] c = "1" -> 1 [] c = "2" -> 2 [] c = "3" -> 3
    [] c = "4" -> 4 [] c = "5" -> 5 [] c = "6" -> 6 [] c = "7" -> 7
    [] c = "8" -> 8 [] c = "9" -> 9

RECURSIVE Num(_, _, _)
\* the number written by the n digits cs[i .. i+n-1]
Num(cs, i, n) ==
  IF n = 0 THEN 0 ELSE Num(cs, i, n - 1) * 10 + DigitVal(cs[i + n - 1])

RECURSIVE RunLen(_, _)
\* the length of the run of digits that starts at cs[i]
RunLen(cs, i) ==
  IF i <= Len(cs) /\ cs[i] \in Digits THEN 1 + RunLen(cs, i + 1) ELSE 0

RECURSIVE Tokens(_, _)
\* cs from position i on, cut into its runs of digits (each with its length
\* and the number it writes) and its other characters (one token each)
Tokens(cs, i) ==
  IF i > Len(cs) THEN <<>>
  ELSE IF cs[i] \in Digits
  THEN <<[digits |-> TRUE, len |-> RunLen(cs, i),
          val |-> Num(cs, i, RunLen(cs, i)), ch |-> ""]>>
       \o Tokens(cs, i + RunLen(cs, i))
  ELSE <<[digits |-> FALSE, len |-> 1, val |-> 0, ch |-> cs[i]]>>
       \o Tokens(cs, i + 1)

\* token t is a number of one of the given widths
IsNum(t, widths) == t.digits /\ t.len \in widths

\* token t is the character c
IsCh(t, c) == ~t.digits /\ t.ch = c

\* the tokens start with year-month-day, the year four digits wide
DateAt(ts, widths) ==
  /\ Len(ts) >= 5
  /\ IsNum(ts[1], {4}) /\ IsCh(ts[2], "-")
  /\ IsNum(ts[3], widths) /\ IsCh(ts[4], "-")
  /\ IsNum(ts[5], widths)

\* tokens 7 to 11 are hour:minute:second
TimeAt(ts, widths) ==
  /\ Len(ts) >= 11
  /\ IsNum(ts[7], widths) /\ IsCh(ts[8], ":")
  /\ IsNum(ts[9], widths) /\ IsCh(ts[10], ":")
  /\ IsNum(ts[11], widths)

IsLeap(y) == (y % 4 = 0) /\ ((y % 100 # 0) \/ (y % 400 = 0))

DaysInMonth(y, m) ==
  IF m = 2 THEN (IF IsLeap(y) THEN 29 ELSE 28)
  ELSE IF m \in {4, 6, 9, 11} THEN 30 ELSE 31

\* days in the years before year y (datetime._days_before_year)
DaysBeforeYear(y) ==
  (y - 1) * 365 + ((y - 1) \div 4) - ((y - 1) \div 100) + ((y - 1) \div 400)

RECURSIVE DaysBeforeMonth(_, _)
DaysBeforeMonth(y, m) ==
  IF m = 1 THEN 0 ELSE DaysBeforeMonth(y, m - 1) + DaysInMonth(y, m - 1)

\* proleptic Gregorian ordinal of y-m-d, 0001-01-01 being day 1
Ordinal(y, m, d) == DaysBeforeYear(y) + DaysBeforeMonth(y, m) + d

EpochOrdinal == Ordinal(1970, 1, 1)

SecondsPerDay == 24 * 60 * 60

\* what a failed parse (an exception) is
NoDate == [ok |-> FALSE]

\* the datetime the constructor builds, or the ValueError it raises
MkDate(y, m, d, H, M, S, aware, off) ==
  IF /\ y >= 1
     /\ m >= 1 /\ m <= 12
     /\ d >= 1 /\ d <= DaysInMonth(y, m)
     /\ H <= 23 /\ M <= 59 /\ S <= 59
  THEN [ok |-> TRUE, y |-> y, m |-> m, d |-> d, H |-> H, M |-> M, S |-> S,
        aware |-> aware, off |-> off]
  ELSE NoDate

\* the host's local time zone, in seconds east of UTC (Asia/Jerusalem
\* standard time); the zone only shifts the timestamps of naive datetimes
utcoffset == 2 * 3600

\* datetime.timestamp(): seconds since the epoch; a naive datetime is taken
\* as local time, local being utcoffset seconds east of UTC
Timestamp(dt) ==
  (Ordinal(dt.y, dt.m, dt.d) - EpochOrdinal) * SecondsPerDay
  + dt.H * 3600 + dt.M * 60 + dt.S
  - (IF dt.aware THEN dt.off ELSE utcoffset)

\* the sign of the offset that token t opens, 0 when t is no sign
Sign(t) == IF IsCh(t, "+") THEN 1 ELSE IF IsCh(t, "-") THEN 0 - 1 ELSE 0

\* datetime.fromisoformat on the tokens of YYYY-MM-DD, YYYY-MM-DD?HH:MM:SS
\* and YYYY-MM-DD?HH:MM:SS+HH:MM (? is any one character but a digit)
fromisoformat(ts) ==
  IF Len(ts) = 5 /\ DateAt(ts, {2})
  THEN MkDate(ts[1].val, ts[3].val, ts[5].val, 0, 0, 0, FALSE, 0)
  ELSE IF Len(ts) = 11 /\ DateAt(ts, {2}) /\ ~ts[6].digits /\ TimeAt(ts, {2})
  THEN MkDate(ts[1].val, ts[3].val, ts[5].val,
              ts[7].val, ts[9].val, ts[11].val, FALSE, 0)
  ELSE IF /\ Len(ts) = 15 /\ DateAt(ts, {2}) /\ ~ts[6].digits
          /\ TimeAt(ts, {2})
          /\ Sign(ts[12]) # 0 /\ IsNum(ts[13], {2}) /\ IsCh(ts[14], ":")
          /\ IsNum(ts[15], {2}) /\ ts[13].val <= 23 /\ ts[15].val <= 59
  THEN MkDate(ts[1].val, ts[3].val, ts[5].val,
              ts[7].val, ts[9].val, ts[11].val, TRUE,
              Sign(ts[12]) * (ts[13].val * 3600 + ts[15].val * 60))
  ELSE NoDate

\* datetime.strptime(val, fmt) on the tokens of val for the three fallback
\* formats, numbered as in the tuple: 1 "%Y-%m-%dT%H:%M:%S%z",
\* 2 "%Y-%m-%d %H:%M:%S", 3 "%Y-%m-%d".  %Y takes four digits, the other
\* numbers one or two, %z a sign and HHMM or HH:MM.
strptime(ts, fmt) ==
  IF fmt = 3
  THEN IF Len(ts) = 5 /\ DateAt(ts, {1, 2})
       THEN MkDate(ts[1].val, ts[3].val, ts[5].val, 0, 0, 0, FALSE, 0)
       ELSE NoDate
  ELSE IF fmt = 2
  THEN IF /\ Len(ts) = 11 /\ DateAt(ts, {1, 2}) /\ IsCh(ts[6], " ")
          /\ TimeAt(ts, {1, 2})
       THEN MkDate(ts[1].val, ts[3].val, ts[5].val,
                   ts[7].val, ts[9].val, ts[11].val, FALSE, 0)
       ELSE NoDate
  ELSE IF /\ Len(ts) = 13 /\ DateAt(ts, {1, 2}) /\ IsCh(ts[6], "T")
          /\ TimeAt(ts, {1, 2})
          /\ Sign(ts[12]) # 0 /\ IsNum(ts[13], {4}) /\ ts[13].val % 100 <= 59
  THEN MkDate(ts[1].val, ts[3].val, ts[5].val,
              ts[7].val, ts[9].val, ts[11].val, TRUE,
              Sign(ts[12]) * ((ts[13].val \div 100) * 3600
                              + (ts[13].val % 100) * 60))
  ELSE IF /\ Len(ts) = 15 /\ DateAt(ts, {1, 2}) /\ IsCh(ts[6], "T")
          /\ TimeAt(ts, {1, 2})
          /\ Sign(ts[12]) # 0 /\ IsNum(ts[13], {2}) /\ IsCh(ts[14], ":")
          /\ IsNum(ts[15], {2}) /\ ts[15].val <= 59
  THEN MkDate(ts[1].val, ts[3].val, ts[5].val,
              ts[7].val, ts[9].val, ts[11].val, TRUE,
              Sign(ts[12]) * (ts[13].val * 3600 + ts[15].val * 60))
  ELSE NoDate

\* the fallback formats, in the order of the tuple, that parse the tokens
parsing_formats(ts) == {fmt \in 1..3 : strptime(ts, fmt).ok}

\* the datetime parse_pubdate finds in a text that is not empty:
\* fromisoformat's, else that of the first fallback format that parses,
\* else none
parsed(val) ==
  LET ts == Tokens(Chars[val], 1)
  IN  IF fromisoformat(ts).ok THEN fromisoformat(ts)
      ELSE IF parsing_formats(ts) = {} THEN NoDate
      ELSE strptime(ts, CHOOSE fmt \in parsing_formats(ts) :
                          \A g \in parsing_formats(ts) : fmt <= g)

\* the datetime found in each pubDate text of the model, worked out once
Parsed == [val \in DOMAIN Chars |-> parsed(val)]

\* parse_pubdate: 0 for None and "", the timestamp of the datetime found,
\* 0 when none is found
parse_pubdate(val) ==
  IF ~Truthy(val) THEN 0
  ELSE IF Parsed[val].ok THEN Timestamp(Parsed[val]) ELSE 0

(* ------------------------------ CSV files ------------------------------ *)

\* a location that holds no file
NoFile == [exists |-> FALSE, header |-> <<>>, rows |-> <<>>]

\* the position of field name k in a header
IndexOf(header, k) == CHOOSE j \in 1..Len(header) : header[j] = k

\* row.get(k): the value under k, None when the dict has no key k
Get(row, k) == IF k \in DOMAIN row.val THEN row.val[k] ELSE None

\* row.get(k, default)
GetOr(row, k, default) == IF k \in DOMAIN row.val THEN row.val[k] ELSE default

\* read_csv: [] for a missing file, else one dict per data line, keyed by
\* the header; a file without data lines gives [] and its header is not kept
read_csv(file) ==
  IF ~file.exists THEN <<>>
  ELSE [i \in 1..Len(file.rows) |->
          [keys |-> file.header,
           val  |-> [k \in Range(file.header) |->
                       file.rows[i][IndexOf(file.header, k)]]]]

\* os.path.dirname of a path given as its components
dirname(path) == SubSeq(path, 1, Len(path) - 1)

\* os.makedirs(d, exist_ok=True) raises FileNotFoundError for the empty path
makedirs_raises(d) == d = <<>>

\* write_csv: the file written: the header line, then one line per row with
\* "" for every field the row does not have
write_csv(rows, fieldnames) ==
  [exists |-> TRUE,
   header |-> fieldnames,
   rows   |-> [i \in 1..Len(rows) |->
                 [j \in 1..Len(fieldnames) |->
                    GetOr(rows[i], fieldnames[j], "")]]]

(* ------------------------------- merge --------------------------------- *)

\* get_id_key: row.get('id') or row.get(BOM 'id')
get_id_key(row) ==
  IF Truthy(Get(row, "id")) THEN Get(row, "id") ELSE Get(row, BOM_ID)

\* the set existing_keys built from the master rows
existing_keys(master_rows) ==
  {get_id_key(master_rows[i]) : i \in {j \in 1..Len(master_rows) :
                                         Truthy(get_id_key(master_rows[j]))}}

\* is_new with the test on the master's keys left out: every source row
\* counts as new
is_new_always(r, keys) == TRUE

\* is a source row appended to new_rows
is_new(r, keys) == ~Truthy(get_id_key(r)) \/ get_id_key(r) \notin keys

\* new_rows: the source rows without a key, or whose key the master lacks
new_rows(source_rows, master_rows) ==
  LET keys == existing_keys(master_rows)
  IN  SelectSeq(source_rows, LAMBDA r : is_new(r, keys))

\* combined with the master rows left out whenever the source brings new
\* rows
combined_new_only(source_rows, master_rows) ==
  LET new == new_rows(source_rows, master_rows)
  IN  IF new = <<>>
      THEN IF master_rows = <<>> /\ source_rows # <<>>
           THEN source_rows
           ELSE master_rows
      ELSE new

\* combined: the sequence handed to the dedupe
combined(source_rows, master_rows) ==
  LET new == new_rows(source_rows, master_rows)
  IN  IF new = <<>>
      THEN IF master_rows = <<>> /\ source_rows # <<>>
           THEN source_rows
           ELSE master_rows
      ELSE master_rows \o new

\* dict_put as a list append: a key seen before is stored a second time
dict_put_append(acc, r) ==
  IF get_id_key(r) = None THEN acc ELSE Append(acc, r)

\* deduped[key] = r on a dict given as its values in insertion order: a key
\* seen before keeps its place and takes the new row, a new key goes last,
\* a row whose key is None is not stored
dict_put(acc, r) ==
  IF get_id_key(r) = None THEN acc
  ELSE IF \E i \in 1..Len(acc) : get_id_key(acc[i]) = get_id_key(r)
  THEN [acc EXCEPT ![CHOOSE i \in 1..Len(acc) :
                       get_id_key(acc[i]) = get_id_key(r)] = r]
  ELSE Append(acc, r)

RECURSIVE dedupe(_)
\* list(deduped.values()) after the loop over combined
dedupe(rows) ==
  IF rows = <<>> THEN <<>>
  ELSE dict_put(dedupe(SubSeq(rows, 1, Len(rows) - 1)), rows[Len(rows)])

\* the sort key of a row
sort_key(r) == parse_pubdate(Get(r, "pubDate"))

\* insert_desc that puts a row in front of the rows with an equal key: still
\* descending, no longer stable
insert_desc_unstable(sorted, r) ==
  LET notmore == {i \in 1..Len(sorted) :
                    sort_key(sorted[i]) <= sort_key(r)}
      at == IF notmore = {} THEN Len(sorted) + 1
            ELSE CHOOSE i \in notmore : \A j \in notmore : i <= j
  IN  SubSeq(sorted, 1, at - 1) \o <<r>> \o SubSeq(sorted, at, Len(sorted))

\* where a row goes into a sequence sorted by descending key so that it
\* stays behind every row whose key is not smaller
insert_desc(sorted, r) ==
  LET less == {i \in 1..Len(sorted) :
                 sort_key(sorted[i]) < sort_key(r)}
      at == IF less = {} THEN Len(sorted) + 1
            ELSE CHOOSE i \in less : \A j \in less : i <= j
  IN  SubSeq(sorted, 1, at - 1) \o <<r>> \o SubSeq(sorted, at, Len(sorted))

RECURSIVE sort_desc(_)
\* rows.sort(key=..., reverse=True): descending and stable
sort_desc(rows) ==
  IF rows = <<>> THEN <<>>
  ELSE insert_desc(sort_desc(SubSeq(rows, 1, Len(rows) - 1)),
                   rows[Len(rows)])

RECURSIVE add_names(_, _)
\* append the names of keys that fieldnames does not hold yet
add_names(fieldnames, keys) ==
  IF keys = <<>> THEN fieldnames
  ELSE add_names(IF keys[1] \in Range(fieldnames) THEN fieldnames
                 ELSE Append(fieldnames, keys[1]),
                 Tail(keys))

RECURSIVE union_names(_, _)
\* the loop over master_rows + source_rows that builds fieldnames
union_names(fieldnames, rows) ==
  IF rows = <<>> THEN fieldnames
  ELSE union_names(add_names(fieldnames, rows[1].keys), Tail(rows))

\* the fieldnames merge_by_source writes
fieldnames_of(source_rows, master_rows) ==
  union_names(<<>>, master_rows \o source_rows)

\* the rows merge_by_source writes, in order
merged_rows(source_rows, master_rows) ==
  sort_desc(dedupe(combined(source_rows, master_rows)))

\* the file merge_by_source(source, master) leaves at the master location
merge_by_source(source_file, master_file) ==
  LET source_rows == read_csv(source_file)
      master_rows == read_csv(master_file)
  IN  write_csv(merged_rows(source_rows, master_rows),
                fieldnames_of(source_rows, master_rows))

(* ------------------------------- inputs -------------------------------- *)

\* the kinds of CSV file handed to the program: a header and the data
\* lines a file of that kind is made of.  Between them: a row without id
\* cell and one with an empty id, an id held twice with different content,
\* the same id under the name id and under the BOM-prefixed name, an empty
\* BOM-prefixed id, a pubDate that does not parse, one before the epoch,
\* and two texts of one date.
Shapes ==
  { [header |-> <<"id", "title">>,
     lines  |-> {<<"1", "old">>, <<"1", "new">>, <<"", "old">>}],
    [header |-> <<"id", "pubDate">>,
     lines  |-> {<<"1", "not-a-date">>, <<"2", "not-a-date">>,
                 <<"2", "1969-12-31T00:00:00+00:00">>}],
    [header |-> <<BOM_ID, "pubDate">>,
     lines  |-> {<<"2", "2024-01-05">>, <<"2", "2024-1-5">>,
                 <<"", "2024-01-05">>}],
    [header |-> <<"title">>,
     lines  |-> {<<"old">>}] }

\* the sequences over S of length at most n
SeqsUpTo(S, n) == UNION {[1..k -> S] : k \in 0..n}

\* the CSV files of at most MaxRows data lines
CsvFiles ==
  UNION {{[exists |-> TRUE, header |-> shape.header, rows |-> rows] :
            rows \in SeqsUpTo(shape.lines, MaxRows)} : shape \in Shapes}

\* the --master arguments, as path components: the master location as the
\* usage line gives it, and a bare file name
MasterPaths == {<<"master_news.csv">>, <<"data", "master", "master_news.csv">>}

(* ---------------------------- state machine ---------------------------- *)

VARIABLES
  source,       \* the file at the --source location
  master,       \* the file at data/master/master_news.csv
  runs,         \* invocations of main so far
  last          \* the last step if it was an invocation of main: its
                \* --master argument, the files it found, its exit status

vars == <<source, master, runs, last>>

NoRun == [op |-> "none", path |-> <<>>, source |-> NoFile, master |-> NoFile,
          exit |-> 0]

Init ==
  /\ source = NoFile
  /\ master \in CsvFiles \cup {NoFile}
  /\ runs = 0
  /\ last = NoRun

\* a producer outside the program leaves a per-source CSV at --source
ProduceSource ==
  /\ runs < MaxRuns
  /\ ~source.exists
  /\ source' \in CsvFiles
  /\ last' = NoRun
  /\ UNCHANGED <<master, runs>>

\* the file at --source is removed
RemoveSource ==
  /\ runs < MaxRuns
  /\ source.exists
  /\ source' = NoFile
  /\ last' = NoRun
  /\ UNCHANGED <<master, runs>>

\* main(argv) with --master master_path: 2 when the source is missing; else
\* merge_by_source, whose write_csv either raises in os.makedirs (the
\* interpreter then exits with status 1 and nothing is written) or writes
\* the master; then 0.  A bare file name names a file of the working
\* directory, which no run ever writes and which the model does not track.
main(master_path) ==
  /\ runs < MaxRuns
  /\ runs' = runs + 1
  /\ IF ~source.exists
     THEN /\ master' = master
          /\ last' = [op |-> "main", path |-> master_path, source |-> source,
                      master |-> master, exit |-> 2]
     ELSE IF makedirs_raises(dirname(master_path))
     THEN /\ master' = master
          /\ last' = [op |-> "main", path |-> master_path, source |-> source,
                      master |-> master, exit |-> 1]
     ELSE /\ master' = merge_by_source(source, master)
          /\ last' = [op |-> "main", path |-> master_path, source |-> source,
                      master |-> master, exit |-> 0]
  /\ UNCHANGED source

Next ==
  \/ ProduceSource
  \/ RemoveSource
  \/ \E master_path \in MasterPaths : main(master_path)

Spec == Init /\ [][Next]_vars

(* ------------------------- the last invocation ------------------------- *)

\* the last step was an invocation of main that ran merge_by_source to its
\* end, so the master now holds what it wrote
Merged == last.op = "main" /\ last.exit = 0

\* the rows that invocation read from the source and from the master, and
\* the rows now in the master
SourceRows == read_csv(last.source)
MasterRows == read_csv(last.master)
OutRows == read_csv(master)

\* a row as it is written under a header: "" for the fields it lacks
Written(r, header) == [k \in Range(header) |-> GetOr(r, k, "")]

\* the keys of the rows that have one
Ids(rows) == {get_id_key(rows[i]) : i \in 1..Len(rows)} \ {None}

\* the last row of rows with key k
LastWithKey(rows, k) ==
  rows[CHOOSE i \in 1..Len(rows) :
         /\ get_id_key(rows[i]) = k
         /\ \A j \in (i + 1)..Len(rows) : get_id_key(rows[j]) # k]

\* does parse_pubdate find a date in val
Parses(val) == Truthy(val) /\ Parsed[val].ok

(* -------------------------------- claims ------------------------------- *)

\* C1: idempotence: merging the same source a second time, right after a
\* merge of it, leaves the master file as the first merge wrote it (same
\* header, same rows, same order), so it adds no record.
C1_Idempotent ==
  [][(Merged /\ last.source = source /\ last'.op = "main" /\ last'.exit = 0)
       => master' = master]_vars

\* C2: identity uniqueness: after a merge no two rows of the master have the
\* same resolvable id (the value of id or, failing that, of the
\* BOM-prefixed id).
C2_UniqueIds ==
  Merged =>
    \A i, j \in 1..Len(OutRows) :
      (i # j /\ get_id_key(OutRows[i]) # None)
        => get_id_key(OutRows[i]) # get_id_key(OutRows[j])

\* a merge whose source holds an id twice under the name id and whose
\* master holds the same id under the BOM-prefixed name
C2_Witness ==
  /\ Merged
  /\ \E i, j \in 1..Len(SourceRows), m \in 1..Len(MasterRows) :
       /\ i # j
       /\ Truthy(Get(SourceRows[i], "id"))
       /\ get_id_key(SourceRows[i]) = get_id_key(SourceRows[j])
       /\ ~Truthy(Get(MasterRows[m], "id"))
       /\ get_id_key(MasterRows[m]) = get_id_key(SourceRows[i])
  /\ Len(OutRows) >= 1

\* C3: non-id preservation: after a merge every row of the source or of the
\* master that has no resolvable id is in the master with its fields as they
\* were, and as many such rows are there as came in.
C3_NonIdPreserved ==
  Merged =>
    LET in == MasterRows \o SourceRows
    IN  /\ \A i \in 1..Len(in) :
             get_id_key(in[i]) = None
               => \E o \in 1..Len(OutRows) :
                    OutRows[o].val = Written(in[i], master.header)
        /\ Cardinality({o \in 1..Len(OutRows) : ~Truthy(get_id_key(OutRows[o]))})
             >= Cardinality({i \in 1..Len(in) : get_id_key(in[i]) = None})

\* C4 as claimed: when a source row and a master row have the same
\* resolvable id, the master holds after the merge exactly one row with that
\* id, and its fields are those of the (last such) source row.
C4_SourceWins ==
  Merged =>
    \A k \in Ids(SourceRows) \cap Ids(MasterRows) :
      /\ Cardinality({o \in 1..Len(OutRows) : get_id_key(OutRows[o]) = k}) = 1
      /\ \A o \in 1..Len(OutRows) :
           get_id_key(OutRows[o]) = k
             => OutRows[o].val = Written(LastWithKey(SourceRows, k), master.header)

\* C4 as the code has it: when a source row and a master row have the same
\* non-empty resolvable id, the master holds after the merge exactly one row
\* with that id, and its fields are those of the last master row with that
\* id; the source row is not taken.
C4_MasterKept ==
  Merged =>
    \A k \in Ids(SourceRows) \cap Ids(MasterRows) :
      k # "" =>
        /\ Cardinality({o \in 1..Len(OutRows) : get_id_key(OutRows[o]) = k}) = 1
        /\ \A o \in 1..Len(OutRows) :
             get_id_key(OutRows[o]) = k
               => OutRows[o].val
                    = Written(LastWithKey(MasterRows, k), master.header)

\* a merge where a source row and a master row share a non-empty id and
\* differ in a field both have
C4_Witness ==
  /\ Merged
  /\ \E i \in 1..Len(SourceRows), j \in 1..Len(MasterRows) :
       /\ Truthy(get_id_key(SourceRows[i]))
       /\ get_id_key(SourceRows[i]) = get_id_key(MasterRows[j])
       /\ \E f \in DOMAIN SourceRows[i].val \cap DOMAIN MasterRows[j].val :
            SourceRows[i].val[f] # MasterRows[j].val[f]

\* the place of the row with key k in a sequence of rows
PlaceOf(rows, k) == CHOOSE p \in 1..Len(rows) : get_id_key(rows[p]) = k

\* C5: sort correctness: after a merge every row of the master has a parsed
\* pubDate (0 when missing, empty or unparsable) not smaller than that of
\* the row after it, and rows with equal parsed pubDate stand in the order
\* they had in the deduplicated sequence.
C5_SortedStable ==
  Merged =>
    LET out == OutRows
        deduped == dedupe(combined(SourceRows, MasterRows))
    IN  /\ \A i \in 1..(Len(out) - 1) :
             sort_key(out[i]) >= sort_key(out[i + 1])
        /\ \A i, j \in 1..Len(out) :
             (i < j /\ sort_key(out[i]) = sort_key(out[j]))
               => PlaceOf(deduped, get_id_key(out[i]))
                    < PlaceOf(deduped, get_id_key(out[j]))
        /\ \A i \in 1..Len(out) :
             ~Parses(Get(out[i], "pubDate")) => sort_key(out[i]) = 0

\* a merge that wrote three rows, two of them with equal parsed pubDate and
\* one with a different one, the master having held rows before
C5_Witness ==
  /\ Merged
  /\ Len(OutRows) >= 3
  /\ Len(MasterRows) >= 1
  /\ \E i, j \in 1..Len(OutRows) :
       i # j /\ sort_key(OutRows[i]) = sort_key(OutRows[j])
  /\ \E i, j \in 1..Len(OutRows) :
       sort_key(OutRows[i]) > sort_key(OutRows[j])

\* C6: main returns 2 and leaves the master as it is when the source does
\* not exist; in every other case it merges, writes the master and
\* returns 0.
C6_ExitCodes ==
  last.op = "main" =>
    IF ~last.source.exists
    THEN last.exit = 2 /\ master = last.master
    ELSE last.exit = 0 /\ master.exists

\* C7: malformed date sorts last: after a merge every row whose pubDate does
\* not parse stands after every row whose pubDate parses.
C7_MalformedLast ==
  Merged =>
    \A i, j \in 1..Len(OutRows) :
      (~Parses(Get(OutRows[i], "pubDate")) /\ Parses(Get(OutRows[j], "pubDate")))
        => j < i

\* C8: no-op merge: when every id of the source is in the master already,
\* the merge leaves as many rows as the master had and every master row is
\* among them with its content.
C8_NoOp ==
  (Merged /\ Ids(SourceRows) \subseteq Ids(MasterRows)) =>
    /\ Len(OutRows) = Len(MasterRows)
    /\ \A i \in 1..Len(MasterRows) :
         \E o \in 1..Len(OutRows) :
           OutRows[o].val = Written(MasterRows[i], master.header)

\* C9: schema monotonicity: the header a merge writes holds every field
\* name of the header the master file had before, also when that file had
\* no data line.
C9_SchemaGrows ==
  Merged => Range(last.master.header) \subseteq Range(master.header)

\* C10: the ids in the master after a merge are those the master had before
\* together with those of the source.
C10_IdsGrow ==
  Merged => Ids(OutRows) = Ids(MasterRows) \cup Ids(SourceRows)

\* a merge of a source that brings an id the master lacks and one it has,
\* into a master that has an id the source lacks
C10_Witness ==
  /\ Merged
  /\ Ids(SourceRows) \ Ids(MasterRows) # {}
  /\ Ids(SourceRows) \cap Ids(MasterRows) # {}
  /\ Ids(MasterRows) \ Ids(SourceRows) # {}

====
